---- MODULE Spec2Model ----
(***************************************************************************)
(* Model of the story map front-end: the chapter navigation of             *)
(* src/chapters/chapter-navigation.js and the location-tile dialogs of     *)
(* src/sidebar/sidebar.js.  Each event handler is one action; the          *)
(* functions the handlers call are operators on a record of the module's   *)
(* state, applied in the order the code calls them.                        *)
(***************************************************************************)
EXTENDS Integers, Sequences, FiniteSets, TLC

\* ------------------------------------------------------------------ bounds
\* The longest story explored.
MaxChapters == 3
\* The longest uninterrupted autoplay run whose ticks are counted.
MaxRunTicks == 5
\* The most tiles (chapters) of a story whose sidebar is explored.
MaxTiles == 2
\* The most tiles of a list whose drag gestures are explored.
MaxDragTiles == 3
\* The number of collapsible sections of the sidebar.
MaxSections == 3

\* ------------------------------------------------------------ story data
\* Chapter titles a story may use; a chapter is identified by its title.
Titles == {"a", "b", "c"}
\* A persisted "chapter" parameter that names no chapter (stale URL).
StaleTitle == "stale"
\* params.get("chapter") when the parameter is not set.
Absent == "<absent>"
\* Values the "chapter" URL parameter can hold when the page loads.
ParamValues == Titles \cup {StaleTitle, Absent}
\* The stories: every sequence of titles up to MaxChapters, repeated titles
\* included (nothing in the code rejects them).
Stories == UNION {[1..n -> Titles] : n \in 0..MaxChapters}

\* intervalId = null (line 51); setInterval ids are positive, so 0 is the
\* falsy "no timer" value that `if (intervalId)` tests.
NoTimer == 0
\* findIndex's result when nothing matches.
NotFound == -1
\* The chapterData argument that is story.properties rather than a chapter.
StoryProperties == -1

VARIABLES
  \* chapter-navigation.js
  chapters,        \* story.chapters, as the sequence of chapter titles
  param,           \* the persisted "chapter" URL parameter
  intervalId,      \* the module variable intervalId
  activeTimers,    \* ids of the interval timers the browser still runs
  autoplayIcon,    \* autoplayButton.innerHTML
  introActive,     \* introNavigation has class "active"
  detailActive,    \* detailNavigation has class "active"
  counter,         \* #chapter-index text, as <<shown number, total>>
  forwardDisabled, \* forwardButton.disabled
  shown,           \* what .chapter-detail renders: <<chapterData, isIntro>>
  navLog,          \* calls made by the last navigation handler
  navError,        \* the exception the last navigation handler ended with
  navEvent,        \* the last navigation event: <<name, index before it>>
  run,             \* the uninterrupted autoplay run: <<start index, ticks>>
  before,          \* the timer handle, icon and run before the last event
  \* sidebar.js
  strictMode,      \* the build runs sidebar.js as strict code (an ES module)
  currentDialog,   \* the module variable currentDialog (a tile, or NoDialog)
  dialogOpen,      \* per tile: its dialog has the open attribute
  checked,         \* per tile: the checked radio option of its form
  controller,      \* the binding locationMenuEventController
  dialogEventController, \* the module variable dialogEventController
  listeners,       \* dismissal listeners registered on document, in order
  dispatched,      \* handleFormDialogSubmit calls of the last handler
  containerMode,   \* data-mode of .locations-container
  consoleOut,      \* console output of the last sidebar handler
  sideError,       \* the exception the last sidebar handler ended with
  sideEvent,       \* the last sidebar event: <<name, tile, detail>>
  \* sidebar.js, drag and drop
  tileOrder,       \* the tiles of .location-tiles in document order
  draggingTiles,   \* the tiles with class "dragging"
  dragTarget,      \* what getDragAfterElement returned to the last dragover
  dragError,       \* the exception the last drag listener ended with
  dragEvent,       \* the last drag event: <<name, tile or clientY>>
  \* sidebar.js, collapsible sections
  sectionOpen,     \* per section: its details element has the open attribute
  toggleTasks,     \* queued toggle events, oldest first
  sectionEvent     \* the last section event: <<name, section, newState>>

navVars == <<chapters, param, intervalId, activeTimers, autoplayIcon,
             introActive, detailActive, counter, forwardDisabled, shown,
             navLog, navError, navEvent, run, before>>

sideVars == <<strictMode, currentDialog, dialogOpen, checked, controller,
              dialogEventController, listeners, dispatched, containerMode,
              consoleOut, sideError, sideEvent>>

dragVars == <<tileOrder, draggingTiles, dragTarget, dragError, dragEvent>>

sectionVars == <<sectionOpen, toggleTasks, sectionEvent>>

vars == <<navVars, sideVars, dragVars, sectionVars>>

\* ------------------------------------------------- chapter-navigation.js
\* Array.prototype.findIndex on the titles: first match, 0-based, else -1.
findIndex(seq, title) ==
  IF \E i \in 1..Len(seq) : seq[i] = title
    THEN (CHOOSE i \in 1..Len(seq) :
            /\ seq[i] = title
            /\ \A j \in 1..(i - 1) : seq[j] # title) - 1
    ELSE NotFound

\* getCurrentChapterIndex(): the index derived from the persisted parameter.
getCurrentChapterIndex(s) == findIndex(chapters, s.param)

\* activateNavigationElement(navName)
activateNavigationElement(s, navName) ==
  [s EXCEPT !.introActive = (navName = "intro"),
            !.detailActive = (navName = "details")]

\* updateChapterContent(chapterData, isIntro): the rendered content, the
\* counter text and the forward button's disabled flag.
updateChapterContent(s, chapterData, isIntro) ==
  LET chapterIndex == getCurrentChapterIndex(s)
  IN [s EXCEPT !.shown = <<chapterData, isIntro>>,
               !.counter = <<chapterIndex + 1, Len(chapters)>>,
               !.forwardDisabled = (chapterIndex + 1 = Len(chapters)),
               !.navLog = Append(@, <<"render", chapterData>>)]

\* Mutant of updateChapter: renders and flies without persisting the title.
updateChapter_noPersist(s, chapterIndex) ==
  LET called == [s EXCEPT !.navLog = Append(@, <<"updateChapter", chapterIndex>>)]
  IN IF chapterIndex < 0 \/ chapterIndex >= Len(chapters)
       THEN [called EXCEPT !.navError = "TypeError"]
       ELSE LET drawn == updateChapterContent(called, chapterIndex, FALSE)
            IN [drawn EXCEPT !.navLog = Append(@, <<"flyTo", 2>>)]

\* updateChapter(chapterIndex): story.chapters[chapterIndex].coords throws a
\* TypeError when there is no such chapter, before anything is written.
updateChapter(s, chapterIndex) ==
  LET called == [s EXCEPT !.navLog = Append(@, <<"updateChapter", chapterIndex>>)]
  IN IF chapterIndex < 0 \/ chapterIndex >= Len(chapters)
       THEN [called EXCEPT !.navError = "TypeError"]
       ELSE LET set == [called EXCEPT
                          !.param = chapters[chapterIndex + 1],
                          !.navLog = Append(@, <<"setParams", chapterIndex>>)]
                drawn == updateChapterContent(set, chapterIndex, FALSE)
            IN [drawn EXCEPT !.navLog = Append(@, <<"flyTo", 2>>)]

\* resetToIntro()
resetToIntro(s) ==
  LET cleared == [s EXCEPT !.param = Absent,
                           !.navLog = Append(@, <<"setParams", NotFound>>)]
      drawn == updateChapterContent(cleared, StoryProperties, TRUE)
      intro == activateNavigationElement(drawn, "intro")
  IN [intro EXCEPT !.navLog = Append(@, <<"flyTo", 1>>)]

\* Mutant of setPreviousChapter: the bound is off by one (>= -1).
setPreviousChapter_offByOne(s) ==
  LET newChapterIndex == getCurrentChapterIndex(s) - 1
  IN IF newChapterIndex >= -1
       THEN updateChapter(s, newChapterIndex)
       ELSE resetToIntro(s)

\* setPreviousChapter()
setPreviousChapter(s) ==
  LET newChapterIndex == getCurrentChapterIndex(s) - 1
  IN IF newChapterIndex >= 0
       THEN updateChapter(s, newChapterIndex)
       ELSE resetToIntro(s)

\* Mutant of setNextChapter: clamps to the last chapter instead of doing
\* nothing there.
setNextChapter_clamped(s) ==
  LET newChapterIndex == getCurrentChapterIndex(s) + 1
  IN IF newChapterIndex < Len(chapters)
       THEN updateChapter(s, newChapterIndex)
       ELSE IF Len(chapters) >= 1
              THEN updateChapter(s, Len(chapters) - 1)
              ELSE s

\* setNextChapter()
setNextChapter(s) ==
  LET newChapterIndex == getCurrentChapterIndex(s) + 1
  IN IF newChapterIndex < Len(chapters)
       THEN updateChapter(s, newChapterIndex)
       ELSE s

\* Mutant of stopAutoplay: forgets the handle without clearing the timer.
stopAutoplay_noClear(s) ==
  [s EXCEPT !.autoplayIcon = "play",
            !.intervalId = NoTimer]

\* Mutant of stopAutoplay: picks the icon by the handle it finds.
stopAutoplay_iconByHandle(s) ==
  [s EXCEPT !.autoplayIcon = IF s.intervalId # NoTimer THEN "play" ELSE "pause",
            !.activeTimers = @ \ {s.intervalId},
            !.intervalId = NoTimer]

\* stopAutoplay(): clearTimeout also cancels an interval timer, and
\* clearTimeout(null) does nothing.
stopAutoplay(s) ==
  [s EXCEPT !.autoplayIcon = "play",
            !.activeTimers = @ \ {s.intervalId},
            !.intervalId = NoTimer]

\* Mutant of setNextAutoplayStep: never stops at the last chapter.
setNextAutoplayStep_noStop(s) == setNextChapter(s)

\* setNextAutoplayStep(): the interval callback.
setNextAutoplayStep(s) ==
  LET stepped == setNextChapter(s)
  IN IF stepped.navError # "none"
       THEN stepped
       ELSE IF getCurrentChapterIndex(stepped) = Len(chapters) - 1
              THEN stopAutoplay(stepped)
              ELSE stepped

\* setInterval's return value: a timer id no running timer has.
newTimerId(s) ==
  CHOOSE id \in 1..(Cardinality(s.activeTimers) + 1) : id \notin s.activeTimers

\* Mutant of autoplayClickHandler: starts the timer without the pause icon.
autoplayClickHandler_noIcon(s) ==
  IF s.intervalId # NoTimer
    THEN stopAutoplay(s)
    ELSE LET id == newTimerId(s)
         IN [s EXCEPT !.intervalId = id,
                      !.activeTimers = @ \cup {id}]

\* Mutant of autoplayClickHandler: the stopping click forgets the handle and
\* leaves the timer running.
autoplayClickHandler_forgets(s) ==
  IF s.intervalId # NoTimer
    THEN [s EXCEPT !.autoplayIcon = "play", !.intervalId = NoTimer]
    ELSE LET id == newTimerId(s)
         IN [s EXCEPT !.intervalId = id,
                      !.activeTimers = @ \cup {id},
                      !.autoplayIcon = "pause"]

\* autoplayClickHandler()
autoplayClickHandler(s) ==
  IF s.intervalId # NoTimer
    THEN stopAutoplay(s)
    ELSE LET id == newTimerId(s)
         IN [s EXCEPT !.intervalId = id,
                      !.activeTimers = @ \cup {id},
                      !.autoplayIcon = "pause"]

\* The click handlers registered by initChapterNavigation.
startClickHandler(s) ==
  updateChapter(activateNavigationElement(s, "details"), 0)

\* Mutant of the forward click handler: does not stop autoplay.
forwardClickHandler_noStop(s) == setNextChapter(s)

forwardClickHandler(s) ==
  LET stepped == setNextChapter(s)
  IN IF stepped.navError # "none" THEN stepped ELSE stopAutoplay(stepped)

backClickHandler(s) ==
  LET stepped == setPreviousChapter(s)
  IN IF stepped.navError # "none" THEN stepped ELSE stopAutoplay(stepped)

\* The navigation state as a record, at the start of a handler: the log and
\* the error of the previous handler are gone.
NavState ==
  [param |-> param, intervalId |-> intervalId, activeTimers |-> activeTimers,
   autoplayIcon |-> autoplayIcon, introActive |-> introActive,
   detailActive |-> detailActive, counter |-> counter,
   forwardDisabled |-> forwardDisabled, shown |-> shown,
   navLog |-> <<>>, navError |-> "none"]

\* The record written back to the variables.
NavBecomes(s) ==
  /\ param' = s.param
  /\ intervalId' = s.intervalId
  /\ activeTimers' = s.activeTimers
  /\ autoplayIcon' = s.autoplayIcon
  /\ introActive' = s.introActive
  /\ detailActive' = s.detailActive
  /\ counter' = s.counter
  /\ forwardDisabled' = s.forwardDisabled
  /\ shown' = s.shown
  /\ navLog' = s.navLog
  /\ navError' = s.navError
  /\ UNCHANGED <<chapters, sideVars, dragVars, sectionVars>>

\* The page before initChapterNavigation runs: no panel active, the static
\* markup's icon, nothing rendered.
PageLoaded(p) ==
  [param |-> p, intervalId |-> NoTimer, activeTimers |-> {},
   autoplayIcon |-> "markup", introActive |-> FALSE, detailActive |-> FALSE,
   counter |-> <<0, 0>>, forwardDisabled |-> FALSE,
   shown |-> <<StoryProperties, TRUE>>, navLog |-> <<>>, navError |-> "none"]

\* Mutant of initChapterNavigation: picks the panel by the parameter being
\* set rather than by a chapter being found.
initChapterNavigation_byParam(s) ==
  LET found == findIndex(chapters, s.param)
      chapterData == IF found = NotFound THEN StoryProperties ELSE found
      nav == IF s.param # Absent
               THEN activateNavigationElement(s, "details")
               ELSE activateNavigationElement(s, "intro")
  IN updateChapterContent(nav, chapterData, found = NotFound)

\* initChapterNavigation(): find the chapter the parameter names, activate
\* the matching panel and render it (or the story properties).
initChapterNavigation(s) ==
  LET found == findIndex(chapters, s.param)
      chapterData == IF found = NotFound THEN StoryProperties ELSE found
      nav == IF found # NotFound
               THEN activateNavigationElement(s, "details")
               ELSE activateNavigationElement(s, "intro")
  IN updateChapterContent(nav, chapterData, found = NotFound)

\* The navigation after initChapterNavigation, for a story of `stories` and a
\* persisted parameter of `values`.
NavInit(stories, values) ==
  /\ chapters \in stories
  /\ \E p \in values :
       LET s == initChapterNavigation(PageLoaded(p))
       IN /\ param = s.param
          /\ intervalId = s.intervalId
          /\ activeTimers = s.activeTimers
          /\ autoplayIcon = s.autoplayIcon
          /\ introActive = s.introActive
          /\ detailActive = s.detailActive
          /\ counter = s.counter
          /\ forwardDisabled = s.forwardDisabled
          /\ shown = s.shown
          /\ navLog = s.navLog
          /\ navError = s.navError
  /\ navEvent = <<"init", NotFound>>
  /\ run = <<>>
  /\ before = [intervalId |-> NoTimer, autoplayIcon |-> "markup", run |-> <<>>]

\* What a claim about an event needs of the state the event found.
Remembered ==
  before' = [intervalId |-> intervalId, autoplayIcon |-> autoplayIcon,
             run |-> run]

\* A click reaches a button only on the navigation element that is shown
\* (lines 18-26) and only when the button is not disabled.
StartClick ==
  /\ introActive
  /\ NavBecomes(startClickHandler(NavState))
  /\ navEvent' = <<"start", getCurrentChapterIndex(NavState)>>
  /\ run' = <<>>
  /\ Remembered

ForwardClick ==
  /\ detailActive
  /\ ~forwardDisabled
  /\ NavBecomes(forwardClickHandler(NavState))
  /\ navEvent' = <<"forward", getCurrentChapterIndex(NavState)>>
  /\ run' = <<>>
  /\ Remembered

BackClick ==
  /\ detailActive
  /\ NavBecomes(backClickHandler(NavState))
  /\ navEvent' = <<"back", getCurrentChapterIndex(NavState)>>
  /\ run' = <<>>
  /\ Remembered

\* A click on the autoplay button; a click that starts the timer starts a
\* run at the current chapter.
AutoplayClick ==
  /\ detailActive
  /\ NavBecomes(autoplayClickHandler(NavState))
  /\ navEvent' = <<"autoplay", getCurrentChapterIndex(NavState)>>
  /\ run' = IF intervalId = NoTimer
              THEN <<getCurrentChapterIndex(NavState), 0>>
              ELSE <<>>
  /\ Remembered

\* A period of a running interval timer elapses and its callback runs.  The
\* ticks of a run are counted up to MaxRunTicks, then no longer.
Tick ==
  \E id \in activeTimers :
    /\ NavBecomes(setNextAutoplayStep(NavState))
    /\ navEvent' = <<"tick", getCurrentChapterIndex(NavState)>>
    /\ run' = IF run # <<>> /\ run[2] < MaxRunTicks
                THEN <<run[1], run[2] + 1>>
                ELSE <<>>
    /\ Remembered

NavNext == StartClick \/ ForwardClick \/ BackClick \/ AutoplayClick \/ Tick

\* ------------------------------------------------------------- sidebar.js
\* The four radio values of a tile's form (locationMenuOptions).
locationMenuOptions == {"move-up", "move-down", "edit", "delete"}
\* No radio of the form is checked.
NoOption == ""
\* currentDialog = null; tiles are numbered from 1 in creation order, tile t
\* being built from chapters[t - 1].
NoDialog == 0
\* A click target inside no dialog.
Outside == 0
\* The tiles updatePlaces creates, one per chapter.
Tiles == 1..Len(chapters)
\* let dialogEventController; (line 152): undefined.  Controller identities
\* are positive.
UndefinedController == 0
\* locationMenuEventController before anything is assigned to it: the name is
\* declared nowhere in sidebar.js.
Undeclared == [declared |-> FALSE, id |-> 0, aborted |-> FALSE]

\* AbortController.abort(): every listener registered with the signal goes.
abort(s) ==
  [s EXCEPT !.listeners = SelectSeq(@, LAMBDA l : l.signal # s.controller.id),
            !.controller.aborted = TRUE]

\* closeDialog(dialog): dialog.close(), then locationMenuEventController
\* .abort(), which is a ReferenceError while that name is not bound.
closeDialog(s, dialog) ==
  LET closed == [s EXCEPT !.dialogOpen[dialog] = FALSE]
  IN IF ~closed.controller.declared
       THEN [closed EXCEPT !.sideError = "ReferenceError"]
       ELSE [abort(closed) EXCEPT !.currentDialog = NoDialog]

\* new AbortController(): an identity no live listener's signal has.
newControllerId(s) ==
  CHOOSE id \in 1..(Len(s.listeners) + 1) :
    \A k \in 1..Len(s.listeners) : s.listeners[k].signal # id

\* createDialogCloseListeners(dialog): the assignment to the undeclared
\* locationMenuEventController throws a ReferenceError in strict code and
\* creates a global binding otherwise; then the keydown and the click
\* listener are added with the new controller's signal.
createDialogCloseListeners(s, dialog) ==
  IF strictMode /\ ~s.controller.declared
    THEN [s EXCEPT !.sideError = "ReferenceError"]
    ELSE LET id == newControllerId(s)
         IN [s EXCEPT
               !.controller = [declared |-> TRUE, id |-> id, aborted |-> FALSE],
               !.listeners = @ \o
                 << [type |-> "keydown", dialog |-> dialog, signal |-> id],
                    [type |-> "click", dialog |-> dialog, signal |-> id] >>]

\* The click listener of a dialog show button (lines 171-179).
showButtonClickListener(s, dialog) ==
  LET closed == IF s.currentDialog # NoDialog
                  THEN closeDialog(s, s.currentDialog)
                  ELSE s
  IN IF closed.sideError # "none"
       THEN closed
       ELSE createDialogCloseListeners(
              [closed EXCEPT !.propagationStopped = TRUE,
                             !.currentDialog = dialog,
                             !.dialogOpen[dialog] = TRUE],
              dialog)

\* The document keydown listener of a dialog (lines 207-212).
keydownListener(s, dialog, key) ==
  IF key = "Escape" THEN closeDialog(s, dialog) ELSE s

\* The document click listener of a dialog (lines 218-223);
\* dialog.contains(target) holds for a target inside that dialog.
clickListener(s, dialog, target) ==
  IF target # dialog THEN closeDialog(s, dialog) ELSE s

\* One listener invoked for an event.
invokeListener(s, l, event) ==
  IF l.type = "keydown"
    THEN keydownListener(s, l.dialog, event.key)
    ELSE clickListener(s, l.dialog, event.target)

\* Event dispatch on document: the listeners of the event's type registered
\* when dispatch starts run in order, one removed meanwhile is skipped, and
\* an exception in one is reported without stopping the others.
RECURSIVE dispatchTo(_, _, _)
dispatchTo(s, pending, event) ==
  IF pending = <<>>
    THEN s
    ELSE LET l == Head(pending)
             live == \E k \in 1..Len(s.listeners) : s.listeners[k] = l
             ran == IF live /\ l.type = event.type
                      THEN invokeListener([s EXCEPT !.sideError = "none"], l, event)
                      ELSE s
             kept == IF ran.sideError = "none"
                       THEN [ran EXCEPT !.sideError = s.sideError]
                       ELSE ran
         IN dispatchTo(kept, Tail(pending), event)

dispatchEvent(s, event) == dispatchTo(s, s.listeners, event)

\* Mutant of handleFormDialogSubmit: delete marks the container too.
handleFormDialogSubmit_deleteMarks(s, action, chapterIndex) ==
  LET called == [s EXCEPT !.dispatched = Append(@, <<action, chapterIndex>>)]
  IN CASE action = "edit" ->
            [called EXCEPT !.consoleOut = Append(@, <<"log", "Edit">>),
                           !.containerMode = "edit"]
       [] action = "delete" ->
            [called EXCEPT !.consoleOut = Append(@, <<"log", "Delete">>),
                           !.containerMode = "delete"]
       [] action = "move-up" ->
            [called EXCEPT !.consoleOut = Append(@, <<"log", "Move up">>)]
       [] action = "move-down" ->
            [called EXCEPT !.consoleOut = Append(@, <<"log", "Move down">>)]
       [] OTHER ->
            [called EXCEPT !.consoleOut = Append(@, <<"warn", "Invalid option type">>)]

\* handleFormDialogSubmit(action, chapterIndex): the switch over the action;
\* every case logs, only edit writes data-mode of .locations-container.
handleFormDialogSubmit(s, action, chapterIndex) ==
  LET called == [s EXCEPT !.dispatched = Append(@, <<action, chapterIndex>>)]
  IN CASE action = "edit" ->
            [called EXCEPT !.consoleOut = Append(@, <<"log", "Edit">>),
                           !.containerMode = "edit"]
       [] action = "delete" ->
            [called EXCEPT !.consoleOut = Append(@, <<"log", "Delete">>)]
       [] action = "move-up" ->
            [called EXCEPT !.consoleOut = Append(@, <<"log", "Move up">>)]
       [] action = "move-down" ->
            [called EXCEPT !.consoleOut = Append(@, <<"log", "Move down">>)]
       [] OTHER ->
            [called EXCEPT !.consoleOut = Append(@, <<"warn", "Invalid option type">>)]

\* Mutant of the submit listener: takes the tile's place in the list for the
\* chapter index.
submitListener_byPosition(s, t) ==
  LET place == CHOOSE k \in 1..Len(s.tileOrder) : s.tileOrder[k] = t
  IN handleFormDialogSubmit(s, s.checked[t], place - 1)

\* The submit listener of tile t's form (lines 325-339): the checked radio's
\* value and the index of the first chapter whose title is the form's key.
submitListener(s, t) ==
  handleFormDialogSubmit(s, s.checked[t], findIndex(chapters, chapters[t]))

\* form.requestSubmit() on a method="dialog" form: the submit event, then the
\* form's open dialog is closed.
requestSubmit(s, t) ==
  [submitListener(s, t) EXCEPT !.dialogOpen[t] = FALSE]

\* The change listener of tile t's form (lines 309-322) for a radio target:
\* after requestSubmit, dialogEventController.abort() is a TypeError while
\* that variable is undefined, and currentDialog = null is then not reached.
changeListener(s, t) ==
  LET submitted == requestSubmit(s, t)
  IN IF submitted.dialogEventController = UndefinedController
       THEN [submitted EXCEPT !.sideError = "TypeError"]
       ELSE [submitted EXCEPT
               !.listeners = SelectSeq(@, LAMBDA l :
                                l.signal # submitted.dialogEventController),
               !.currentDialog = NoDialog]

\* The sidebar state as a record, at the start of an event.
SideState ==
  [currentDialog |-> currentDialog, dialogOpen |-> dialogOpen,
   checked |-> checked, controller |-> controller,
   dialogEventController |-> dialogEventController, listeners |-> listeners,
   dispatched |-> <<>>, containerMode |-> containerMode,
   consoleOut |-> <<>>, tileOrder |-> tileOrder,
   sideError |-> "none", propagationStopped |-> FALSE]

SideBecomes(s) ==
  /\ currentDialog' = s.currentDialog
  /\ dialogOpen' = s.dialogOpen
  /\ checked' = s.checked
  /\ controller' = s.controller
  /\ dialogEventController' = s.dialogEventController
  /\ listeners' = s.listeners
  /\ dispatched' = s.dispatched
  /\ containerMode' = s.containerMode
  /\ consoleOut' = s.consoleOut
  /\ sideError' = s.sideError
  /\ tileOrder' = s.tileOrder
  /\ UNCHANGED <<strictMode, navVars, sectionVars>>
  /\ UNCHANGED <<draggingTiles, dragTarget, dragError, dragEvent>>

\* The sidebar once updatePlaces(story.chapters) has built the tiles and
\* registered the listeners: no dialog open, nothing checked.  sidebar.js is
\* an ES module, which runs as strict code; a build that ships it as a
\* classic script runs it as sloppy code.
SideInit ==
  /\ strictMode \in BOOLEAN
  /\ currentDialog = NoDialog
  /\ dialogOpen = [t \in Tiles |-> FALSE]
  /\ checked = [t \in Tiles |-> NoOption]
  /\ controller = Undeclared
  /\ dialogEventController = UndefinedController
  /\ listeners = <<>>
  /\ dispatched = <<>>
  /\ containerMode = "unset"
  /\ consoleOut = <<>>
  /\ sideError = "none"
  /\ sideEvent = <<"init", 0, "">>

\* A click on tile t's show button.  Unless the listener got as far as
\* stopPropagation, the click bubbles to document, outside every dialog.
ShowButtonClick(t) ==
  /\ LET handled == showButtonClickListener(SideState, t)
     IN SideBecomes(IF handled.propagationStopped
                      THEN handled
                      ELSE dispatchEvent(handled,
                             [type |-> "click", key |-> "", target |-> Outside]))
  /\ sideEvent' = <<"show", t, "">>

\* A key pressed while a keydown listener is registered.
Keys == {"Escape", "Enter"}

Keydown(key) ==
  /\ \E k \in 1..Len(listeners) : listeners[k].type = "keydown"
  /\ SideBecomes(dispatchEvent(SideState,
       [type |-> "keydown", key |-> key, target |-> Outside]))
  /\ sideEvent' = <<"keydown", 0, key>>

\* A click, not on a show button or a radio, while a click listener is
\* registered: outside every dialog, or inside an open dialog.
DocumentClick(target) ==
  /\ \E k \in 1..Len(listeners) : listeners[k].type = "click"
  /\ target # Outside => dialogOpen[target]
  /\ SideBecomes(dispatchEvent(SideState,
       [type |-> "click", key |-> "", target |-> target]))
  /\ sideEvent' = <<"click", target, "">>

\* The user picks an unchecked radio option in the open dialog of tile t:
\* the radio becomes checked, the click bubbles to document, then the change
\* event reaches the form's change listener.
RadioChange(t, option) ==
  /\ dialogOpen[t]
  /\ checked[t] # option
  /\ LET picked == [SideState EXCEPT !.checked[t] = option]
         clicked == dispatchEvent(picked,
                      [type |-> "click", key |-> "", target |-> t])
     IN SideBecomes(changeListener(clicked, t))
  /\ sideEvent' = <<"change", t, option>>

SidebarNext ==
  \/ \E t \in Tiles : ShowButtonClick(t)
  \/ \E key \in Keys : Keydown(key)
  \/ \E target \in {Outside} \cup Tiles : DocumentClick(target)
  \/ \E t \in Tiles, option \in locationMenuOptions : RadioChange(t, option)

\* ------------------------------------------------- sidebar.js, drag and drop
\* No element: null, or the undefined .element of the reduce's initial value.
NoTile == 0
\* event.clientY of a dragover event.
PointerYs == {5, 45, 50, 95}
\* getBoundingClientRect() of a tile: the layout is the style sheet's, so
\* each dragover finds every tile at any of these boxes (midpoints 10, 50,
\* 90), two tiles at the same height included.
Boxes == {[top |-> -10, height |-> 40], [top |-> 30, height |-> 40],
          [top |-> 70, height |-> 40]}

\* offset = y - box.top - box.height / 2, doubled to stay in the integers.
offset2(y, box) == 2 * y - 2 * box.top - box.height

\* The accumulator the reduce starts with: { offset: -Infinity }.
NegativeInfinity == [infinite |-> TRUE, offset2 |-> 0, element |-> NoTile]

\* The reduce callback of getDragAfterElement, over the elements in order.
RECURSIVE reduceClosest(_, _, _, _)
reduceClosest(elements, closest, y, box) ==
  IF elements = <<>>
    THEN closest
    ELSE LET child == Head(elements)
             offset == offset2(y, box[child])
             next == IF offset < 0 /\ (closest.infinite \/ offset > closest.offset2)
                       THEN [infinite |-> FALSE, offset2 |-> offset, element |-> child]
                       ELSE closest
         IN reduceClosest(Tail(elements), next, y, box)

\* container.querySelectorAll(".location-tile:not(.dragging)"), in document
\* order.
notDragging(s) == SelectSeq(s.tileOrder, LAMBDA t : t \notin s.draggingTiles)

\* Mutant of getDragAfterElement: the dragged tile is a candidate too.
getDragAfterElement_allTiles(s, y, box) ==
  reduceClosest(s.tileOrder, NegativeInfinity, y, box).element

\* getDragAfterElement(container, draggedElementPositionY)
getDragAfterElement(s, y, box) ==
  reduceClosest(notDragging(s), NegativeInfinity, y, box).element

\* document.querySelector(".dragging"): the first such tile, or null.
querySelectorDragging(s) ==
  LET marked == SelectSeq(s.tileOrder, LAMBDA t : t \in s.draggingTiles)
  IN IF marked = <<>> THEN NoTile ELSE Head(marked)

\* The list without one tile.
without(order, tile) == SelectSeq(order, LAMBDA t : t # tile)

\* tilesContainer.appendChild(draggable): a child is moved to the end.
appendChild(s, draggable) ==
  [s EXCEPT !.tileOrder = Append(without(@, draggable), draggable)]

\* Mutant of insertBefore: a copy is inserted and the child stays where it
\* was.
insertBefore_copy(s, draggable, nextElement) ==
  LET at == CHOOSE k \in 1..Len(s.tileOrder) : s.tileOrder[k] = nextElement
  IN [s EXCEPT !.tileOrder =
        SubSeq(@, 1, at - 1) \o <<draggable>> \o SubSeq(@, at, Len(@))]

\* tilesContainer.insertBefore(draggable, nextElement): a child is moved to
\* just before another child.
insertBefore(s, draggable, nextElement) ==
  LET rest == without(s.tileOrder, draggable)
      at == CHOOSE k \in 1..Len(rest) : rest[k] = nextElement
  IN [s EXCEPT !.tileOrder =
        SubSeq(rest, 1, at - 1) \o <<draggable>> \o SubSeq(rest, at, Len(rest))]

\* The dragover listener of the container (lines 257-267); appendChild and
\* insertBefore throw a TypeError for a null node.
dragoverListener(s, y, box) ==
  LET nextElement == getDragAfterElement(s, y, box)
      draggable == querySelectorDragging(s)
      found == [s EXCEPT !.dragTarget = nextElement]
  IN IF draggable = NoTile
       THEN [found EXCEPT !.dragError = "TypeError"]
       ELSE IF nextElement = NoTile
              THEN appendChild(found, draggable)
              ELSE insertBefore(found, draggable, nextElement)

\* The dragstart and dragend listeners of a tile (lines 247-253).
dragstartListener(s, t) == [s EXCEPT !.draggingTiles = @ \cup {t}]

dragendListener(s, t) == [s EXCEPT !.draggingTiles = @ \ {t}]

\* The tile list as a record, at the start of a drag event.
DragState ==
  [tileOrder |-> tileOrder, draggingTiles |-> draggingTiles,
   dragTarget |-> NoTile, dragError |-> "none"]

DragBecomes(s) ==
  /\ tileOrder' = s.tileOrder
  /\ draggingTiles' = s.draggingTiles
  /\ dragTarget' = s.dragTarget
  /\ dragError' = s.dragError
  /\ UNCHANGED <<navVars, sideVars, sectionVars>>

\* The list once updatePlaces has appended one tile per chapter, in chapter
\* order, and the drag listeners are registered.
DragInit ==
  /\ tileOrder = [t \in Tiles |-> t]
  /\ draggingTiles = {}
  /\ dragTarget = NoTile
  /\ dragError = "none"
  /\ dragEvent = <<"init", 0>>

\* The user starts dragging tile t; the browser runs one drag at a time.
DragStart(t) ==
  /\ draggingTiles = {}
  /\ DragBecomes(dragstartListener(DragState, t))
  /\ dragEvent' = <<"dragstart", t>>

\* The drag of tile t ends (dropped or cancelled).
DragEnd(t) ==
  /\ t \in draggingTiles
  /\ DragBecomes(dragendListener(DragState, t))
  /\ dragEvent' = <<"dragend", t>>

\* Something is dragged over the list at height y while the tiles are laid
\* out at `box`: a tile of the list, or, with no tile marked, something else.
DragOver(y, box) ==
  /\ DragBecomes(dragoverListener(DragState, y, box))
  /\ dragEvent' = <<"dragover", y>>

DragNext ==
  \/ \E t \in Tiles : DragStart(t)
  \/ \E t \in Tiles : DragEnd(t)
  \/ \E y \in PointerYs, box \in [Tiles -> Boxes] : DragOver(y, box)

\* ------------------------------------------- sidebar.js, collapsible sections
\* The details elements that are children of #sidebar, in document order;
\* the page gives each its own id.
Sections == 1..MaxSections

\* A toggle event is queued for the section.
queued(s, section) ==
  \E k \in 1..Len(s.toggleTasks) : s.toggleTasks[k].target = section

\* details.open = value: when the attribute changes, the browser queues a
\* toggle event for the element.  An event still queued for it is replaced,
\* the new one keeping the old one's oldState.
setOpen(s, section, value) ==
  IF s.sectionOpen[section] = value
    THEN s
    ELSE LET old == IF queued(s, section)
                      THEN (CHOOSE k \in 1..Len(s.toggleTasks) :
                              s.toggleTasks[k].target = section)
                      ELSE 0
             oldState == IF old # 0
                           THEN s.toggleTasks[old].oldState
                           ELSE s.sectionOpen[section]
             kept == SelectSeq(s.toggleTasks, LAMBDA task : task.target # section)
         IN [s EXCEPT
               !.sectionOpen[section] = value,
               !.toggleTasks = Append(kept,
                  [target |-> section, oldState |-> oldState, newState |-> value])]

\* detail.open = false for each of the sections, in order.
RECURSIVE closeEach(_, _)
closeEach(s, sections) ==
  IF sections = <<>>
    THEN s
    ELSE closeEach(setOpen(s, Head(sections), FALSE), Tail(sections))

\* The details elements in document order.
allDetails == [k \in 1..MaxSections |-> k]

\* document.querySelectorAll(`details:not(#${id})`) for the id of `target`.
detailsNot(target) == SelectSeq(allDetails, LAMBDA section : section # target)

\* Mutant of toggleDetailsSection: the selector is "details".
toggleDetailsSection_closesAll(s, event) ==
  IF event.newState
    THEN closeEach(s, allDetails)
    ELSE s

\* toggleDetailsSection(event): for newState "open" every details element
\* other than the event's target is closed.
toggleDetailsSection(s, event) ==
  IF event.newState
    THEN closeEach(s, detailsNot(event.target))
    ELSE s

\* The sections as a record, at the start of an event.
SectionState == [sectionOpen |-> sectionOpen, toggleTasks |-> toggleTasks]

SectionBecomes(s) ==
  /\ sectionOpen' = s.sectionOpen
  /\ toggleTasks' = s.toggleTasks
  /\ UNCHANGED <<navVars, sideVars, dragVars>>

\* The sections when the toggle listeners are registered: each in one of the
\* states of `opens`, no toggle event queued.
SectionInit(opens) ==
  /\ sectionOpen \in opens
  /\ toggleTasks = <<>>
  /\ sectionEvent = <<"init", 0, FALSE>>

\* Every section closed.
AllClosed == {[section \in Sections |-> FALSE]}

\* The page as it loads: at most one section open.
AtMostOneOpen ==
  {open \in [Sections -> BOOLEAN] :
     Cardinality({section \in Sections : open[section]}) <= 1}

\* The user clicks the summary of a section: the section opens or closes.
SummaryClick(section) ==
  /\ SectionBecomes(setOpen(SectionState, section, ~sectionOpen[section]))
  /\ sectionEvent' = <<"click", section, ~sectionOpen[section]>>

\* The oldest queued toggle event is fired at its section.
ToggleEvent ==
  /\ toggleTasks # <<>>
  /\ LET event == Head(toggleTasks)
     IN /\ SectionBecomes(toggleDetailsSection(
               [SectionState EXCEPT !.toggleTasks = Tail(@)], event))
        /\ sectionEvent' = <<"toggle", event.target, event.newState>>

SectionNext ==
  \/ \E section \in Sections : SummaryClick(section)
  \/ ToggleEvent

\* ----------------------------------------------------------- specifications
\* The chapter navigation's events alone, and the sidebar's alone: the two
\* modules share the story and nothing else.  The sidebar never reads the
\* persisted parameter, so its specification starts without one.  The drag
\* gestures and the collapsible sections are explored on their own as well.
Init ==
  /\ NavInit(Stories, ParamValues)
  /\ SideInit
  /\ DragInit
  /\ SectionInit(AllClosed)

NavSpec == Init /\ [][NavNext]_vars

SidebarStories == {story \in Stories : Len(story) <= MaxTiles}

SidebarInit ==
  /\ NavInit(SidebarStories, {Absent})
  /\ SideInit
  /\ DragInit
  /\ SectionInit(AllClosed)

SidebarSpec == SidebarInit /\ [][SidebarNext]_vars

\* Lists of up to MaxDragTiles tiles; a drag gesture reads no title.
DragStories == {[t \in 1..n |-> "a"] : n \in 0..MaxDragTiles}

DragSpecInit ==
  /\ NavInit(DragStories, {Absent})
  /\ SideInit
  /\ DragInit
  /\ SectionInit(AllClosed)

DragSpec == DragSpecInit /\ [][DragNext]_vars

SectionSpecInit ==
  /\ NavInit({<<>>}, {Absent})
  /\ SideInit
  /\ DragInit
  /\ SectionInit(AtMostOneOpen)

SectionSpec == SectionSpecInit /\ [][SectionNext]_vars

\* ------------------------------------------------------------ navigation claims
\* The index the navigator derives in the current state.
CurrentIndex == getCurrentChapterIndex(NavState)

\* The last handler called updateChapter(i) and it returned normally.
UpdatedTo(i) ==
  /\ navError = "none"
  /\ \E k \in 1..Len(navLog) : navLog[k] = <<"updateChapter", i>>

\* No title occurs twice in the story.
DistinctTitles == \A i, j \in 1..Len(chapters) : i # j => chapters[i] # chapters[j]

\* The title of chapter i (0-based) occurs at no earlier position.
FirstOfItsTitle(i) == \A j \in 1..i : chapters[j] # chapters[i + 1]

Min(a, b) == IF a < b THEN a ELSE b

\* What C6 says of an autoplay run that started at chapter 0 and has seen
\* only timer ticks since: after k ticks the index is min(k, N-1); autoplay
\* runs until a tick reaches N-1, and from that tick on it is Stopped with no
\* timer left to fire.
AutoplayRunFromZero ==
  (run # <<>> /\ run[1] = 0) =>
    /\ CurrentIndex = Min(run[2], Len(chapters) - 1)
    /\ (run[2] >= 1 /\ CurrentIndex = Len(chapters) - 1) =>
         (intervalId = NoTimer /\ activeTimers = {} /\ autoplayIcon = "play")
    /\ (run[2] = 0 \/ CurrentIndex < Len(chapters) - 1) =>
         (intervalId # NoTimer /\ activeTimers = {intervalId}
            /\ autoplayIcon = "pause")

C7_TimerUnique ==
  /\ Cardinality(activeTimers) <= 1
  /\ (intervalId # NoTimer) <=> (activeTimers # {})
  /\ activeTimers \subseteq {intervalId}

\* C7 witness: the timer survived a tick and is still the one active timer.
C7_Witness ==
  /\ navEvent[1] = "tick"
  /\ intervalId # NoTimer
  /\ activeTimers = {intervalId}

\* C8: a back click when the derived index is 0 or unmatched clears the
\* persisted parameter, so the derived index becomes -1, and activates the
\* intro panel and not the detail panel; the derived index is never below -1.
C8_PreviousAtFirstGoesToIntro ==
  /\ CurrentIndex >= -1
  /\ (navEvent[1] = "back" /\ navEvent[2] <= 0) =>
       /\ param = Absent
       /\ CurrentIndex = -1
       /\ introActive
       /\ ~detailActive

\* C8 witness: a back click at index 0 has led to the intro panel.
C8_Witness ==
  /\ navEvent = <<"back", 0>>
  /\ param = Absent
  /\ introActive

\* C9: setNextChapter at the last chapter index (from a forward click or a
\* timer tick) leaves the persisted parameter and everything rendered as
\* they were, requests no render and no camera transition, and the forward
\* button stays disabled.
C9_NextAtLastIsNoOp ==
  [][((Tick \/ ForwardClick) /\ Len(chapters) >= 1
        /\ CurrentIndex = Len(chapters) - 1) =>
       /\ UNCHANGED <<param, counter, shown, introActive, detailActive>>
       /\ navLog' = <<>>
       /\ navError' = "none"
       /\ forwardDisabled
       /\ forwardDisabled']_vars

\* C9 witness: a tick fired at the last index of a story of two or more
\* chapters and the index is still the last one.
C9_Witness ==
  /\ Len(chapters) >= 2
  /\ navEvent = <<"tick", Len(chapters) - 1>>
  /\ CurrentIndex = Len(chapters) - 1
  /\ navLog = <<>>
  /\ forwardDisabled

\* C10 as stated: in every reachable state the intro panel is active exactly
\* when the derived index is -1 and the detail panel exactly when it is >= 0,
\* the counter reads (index+1) / total, and the forward button is disabled
\* exactly when the derived index is the last chapter index.
C10_UiIsFunctionOfIndex ==
  /\ introActive <=> (CurrentIndex = -1)
  /\ detailActive <=> (CurrentIndex >= 0)
  /\ counter = <<CurrentIndex + 1, Len(chapters)>>
  /\ forwardDisabled <=> (CurrentIndex = Len(chapters) - 1)

\* The last event was one of the autoplay state machine's: a toggle click, a
\* forward or back click, or a timer tick.
ByAutoplayEvent == navEvent[1] \in {"autoplay", "forward", "back", "tick"}

\* C11: in every state reached through autoplay toggle clicks, forward/back
\* clicks and timer ticks the autoplay button shows the pause icon exactly
\* when intervalId is set and the play icon exactly when it is null.  (The
\* icon of the static markup, which no code has written yet, is neither.)
C11_IconReflectsTimer ==
  /\ ByAutoplayEvent => autoplayIcon # "markup"
  /\ autoplayIcon # "markup" =>
       /\ autoplayIcon = "pause" <=> intervalId # NoTimer
       /\ autoplayIcon = "play" <=> intervalId = NoTimer

\* C11's case: autoplay runs after a tick, the pause icon showing.
C11_Witness ==
  /\ navEvent[1] = "tick"
  /\ intervalId # NoTimer
  /\ autoplayIcon = "pause"

\* The last event was the autoplay click that found a timer started by the
\* click before it with no tick in between.
ToggledTwice ==
  /\ navEvent[1] = "autoplay"
  /\ before.run # <<>>
  /\ before.run[2] = 0

\* C12: toggling autoplay on and off again before any tick makes no
\* setNextChapter call: the handle is null, no timer is left whose tick could
\* run setNextAutoplayStep, updateChapter was not called, and the chapter
\* index is the one autoplay was started at.
C12_ToggleTwiceIsNoOp ==
  ToggledTwice =>
    /\ intervalId = NoTimer
    /\ activeTimers = {}
    /\ navLog = <<>>
    /\ navError = "none"
    /\ CurrentIndex = before.run[1]
    /\ navEvent[2] = before.run[1]

\* C12's case: autoplay started and stopped at chapter 1 with no tick.
C12_Witness ==
  /\ ToggledTwice
  /\ before.run = <<1, 0>>
  /\ CurrentIndex = 1
  /\ intervalId = NoTimer

\* The persisted parameter names no chapter: it is absent or unmatched.
ParamUnmatched == \A i \in 1..Len(chapters) : chapters[i] # param

\* C14: when the persisted parameter is absent or matches no chapter title,
\* getCurrentChapterIndex() is -1 and initialisation activates the intro
\* panel, renders the story properties as the intro with the counter 0 / total
\* and raises no error.
C14_UnmatchedParamStartsAtIntro ==
  (navEvent[1] = "init" /\ ParamUnmatched) =>
    /\ CurrentIndex = -1
    /\ introActive
    /\ ~detailActive
    /\ shown = <<StoryProperties, TRUE>>
    /\ counter = <<0, Len(chapters)>>
    /\ navLog = << <<"render", StoryProperties>> >>
    /\ navError = "none"

\* C14's case: the page loaded with a stale title and a story of two chapters.
C14_Witness ==
  /\ navEvent[1] = "init"
  /\ param = StaleTitle
  /\ Len(chapters) = 2
  /\ introActive

\* C16: stopAutoplay is idempotent: in every state a second call leaves what
\* the first call left (handle null, play icon, no timer of the handle), the
\* chapter index and the panels are what they were, and no error is raised;
\* a forward or back click that finds autoplay stopped leaves it stopped.
C16_StopAutoplayIdempotent ==
  LET once == stopAutoplay(NavState)
      twice == stopAutoplay(once)
  IN /\ twice = once
     /\ once.navError = "none"
     /\ once.intervalId = NoTimer
     /\ once.autoplayIcon = "play"
     /\ getCurrentChapterIndex(once) = CurrentIndex
     /\ once.introActive = introActive
     /\ once.detailActive = detailActive
     /\ (intervalId = NoTimer /\ autoplayIcon = "play") => once = NavState
     /\ (navEvent[1] \in {"forward", "back"} /\ before.intervalId = NoTimer
           /\ before.autoplayIcon = "play")
          => (intervalId = NoTimer /\ autoplayIcon = "play" /\ activeTimers = {})

\* C16's case: a forward click called stopAutoplay while autoplay was already
\* stopped by an earlier call.
C16_Witness ==
  /\ navEvent[1] = "forward"
  /\ before.intervalId = NoTimer
  /\ before.autoplayIcon = "play"
  /\ intervalId = NoTimer
  /\ autoplayIcon = "play"

\* C19: after a forward or back click, in whatever state it was made,
\* autoplay is stopped (handle null, no timer left, play icon); and while the
\* handle is null only an autoplay click brings a timer back, so no tick
\* runs until autoplay is toggled on again.
C19_ManualNavigationStopsAutoplay ==
  /\ navEvent[1] \in {"forward", "back"} =>
       /\ intervalId = NoTimer
       /\ activeTimers = {}
       /\ autoplayIcon = "play"
  /\ (before.intervalId = NoTimer /\ navEvent[1] # "autoplay") =>
       /\ navEvent[1] # "tick"
       /\ intervalId = NoTimer
       /\ activeTimers = {}

\* C19's case: a forward click between two ticks of a running autoplay.
C19_Witness ==
  /\ navEvent[1] = "forward"
  /\ before.intervalId # NoTimer
  /\ before.run # <<>>
  /\ before.run[2] >= 1
  /\ intervalId = NoTimer
  /\ activeTimers = {}

\* C20 as stated: updateChapter is only ever called with an index of the
\* story, for every story (one of zero chapters included) and every event.
C20_UpdateChapterInRange ==
  \A k \in 1..Len(navLog) :
    navLog[k][1] = "updateChapter" => navLog[k][2] \in 0..(Len(chapters) - 1)

\* --------------------------------------------------------------- sidebar claims
\* The tiles whose dialog is open.
OpenDialogs == {t \in Tiles : dialogOpen[t]}

\* The listeners are exactly one dismissal group for tile t: its keydown and
\* its click listener, registered with one signal.
OneListenerGroupFor(t) ==
  /\ Len(listeners) = 2
  /\ {listeners[1].type, listeners[2].type} = {"keydown", "click"}
  /\ listeners[1].dialog = t /\ listeners[2].dialog = t
  /\ listeners[1].signal = listeners[2].signal

\* C1 as stated: at most one tile dialog is open, and a click on a tile's
\* show button leaves that tile's dialog open, every other dialog closed, and
\* exactly one active dismissal-listener group.
C1_DialogExclusive ==
  /\ Cardinality(OpenDialogs) <= 1
  /\ sideEvent[1] = "show" =>
       /\ OpenDialogs = {sideEvent[2]}
       /\ OneListenerGroupFor(sideEvent[2])

\* C2 as stated: currentDialog non-null implies that the abort handle exists,
\* is not aborted, and that the Escape and the outside-click listener are
\* attached for that dialog; the reference and the handle are reset together,
\* so with currentDialog null no handle is live.
C2_DialogSessionInvariant ==
  /\ currentDialog # NoDialog =>
       /\ controller.declared
       /\ ~controller.aborted
       /\ OneListenerGroupFor(currentDialog)
  /\ currentDialog = NoDialog =>
       (~controller.declared \/ controller.aborted)

\* C3 as stated: whenever no dialog is open there are no active dismissal
\* listeners, and whenever one is open there is exactly one group, whichever
\* path closed the previous dialog.
C3_ListenersDoNotAccumulate ==
  /\ OpenDialogs = {} => listeners = <<>>
  /\ \A t \in OpenDialogs : OneListenerGroupFor(t)

\* C4 as stated: selecting a radio option in a tile's open dialog invokes the
\* action handler exactly once and leaves the dialog session Closed: dialog
\* hidden, currentDialog null, listeners detached.
C4_SelectionLeavesClosed ==
  sideEvent[1] = "change" =>
    /\ Len(dispatched) = 1
    /\ dispatched[1][1] = sideEvent[3]
    /\ ~dialogOpen[sideEvent[2]]
    /\ currentDialog = NoDialog
    /\ listeners = <<>>

\* A radio value that is none of locationMenuOptions.
UnrecognizedOption == "rename"

\* C17: handleFormDialogSubmit(action, chapterIndex) changes observable state
\* only for edit, where it sets the container's mode marker to edit; for
\* move-up, move-down, delete and an unrecognized action the dialogs, the
\* listeners, the tile order and the mode marker are what they were, and
\* exactly the unrecognized action logs a warning.
C17_OnlyEditWrites ==
  /\ \A action \in locationMenuOptions \cup {UnrecognizedOption},
        chapterIndex \in -1..(Len(chapters) - 1) :
       LET handled == handleFormDialogSubmit(SideState, action, chapterIndex)
       IN /\ [handled EXCEPT !.dispatched = <<>>, !.consoleOut = <<>>,
                             !.containerMode = containerMode] = SideState
          /\ handled.containerMode =
               IF action = "edit" THEN "edit" ELSE containerMode
          /\ handled.sideError = "none"
          /\ (action \notin locationMenuOptions)
               <=> handled.consoleOut = << <<"warn", "Invalid option type">> >>
  /\ (sideEvent[1] = "change" /\ sideEvent[3] = "edit") => containerMode = "edit"
  /\ containerMode \in {"unset", "edit"}
  /\ tileOrder = [t \in Tiles |-> t]

\* C17's case: delete was picked and dispatched, and the mode marker is still
\* not set.
C17_Witness ==
  /\ sideEvent[1] = "change"
  /\ sideEvent[3] = "delete"
  /\ dispatched = << <<"delete", sideEvent[2] - 1>> >>
  /\ containerMode = "unset"

\* The permutations of the tiles: the orders drag-reordering can leave.
TileOrders ==
  {order \in [Tiles -> Tiles] : \A t \in Tiles : \E k \in Tiles : order[k] = t}

midpoint2(box) == 2 * box.top + box.height

\* C13: for every pointer height and every layout, getDragAfterElement
\* returns the non-dragging tile whose midpoint is strictly below the pointer
\* and closest to it, the first of them in document order when several are
\* equally close, and no element when no midpoint is below the pointer; for
\* midpoints 10, 50, 90 a pointer at 45 gives the tile at 50 and a pointer at
\* 95 gives no element.
C13_ClosestTileBelowPointer ==
  /\ \A y \in PointerYs, box \in [Tiles -> Boxes] :
       LET elements == notDragging(DragState)
           target == getDragAfterElement(DragState, y, box)
           below(k) == midpoint2(box[elements[k]]) > 2 * y
       IN IF \E k \in 1..Len(elements) : below(k)
            THEN \E k \in 1..Len(elements) :
                   /\ target = elements[k]
                   /\ below(k)
                   /\ \A j \in 1..Len(elements) :
                        below(j) => midpoint2(box[elements[j]])
                                      >= midpoint2(box[elements[k]])
                   /\ \A j \in 1..(k - 1) :
                        below(j) => midpoint2(box[elements[j]])
                                      > midpoint2(box[elements[k]])
            ELSE target = NoTile
  /\ (tileOrder = <<1, 2, 3>> /\ draggingTiles = {}) =>
       LET box == [t \in Tiles |-> [top |-> 40 * t - 50, height |-> 40]]
       IN /\ getDragAfterElement(DragState, 45, box) = 2
          /\ getDragAfterElement(DragState, 95, box) = NoTile
  /\ dragEvent[1] = "dragover" =>
       dragTarget \in {NoTile} \cup (Tiles \ draggingTiles)

\* C13's case: tile 1 is dragged at height 45 over the three tiles and was
\* put before tile 2, which a layout with midpoints 10, 50, 90 makes the
\* target; at 95 the same layout gives no target.
C13_Witness ==
  /\ dragEvent = <<"dragover", 45>>
  /\ draggingTiles = {1}
  /\ tileOrder = <<1, 2, 3>>
  /\ dragTarget = 2
  /\ dragError = "none"
  /\ LET box == [t \in Tiles |-> [top |-> 40 * t - 50, height |-> 40]]
     IN /\ getDragAfterElement(DragState, 45, box) = 2
        /\ getDragAfterElement(DragState, 95, box) = NoTile

\* C21: every dragover step made while a tile is marked as dragging leaves
\* the set of tiles unchanged (none duplicated, none lost), keeps the
\* relative order of the other tiles, puts the dragged tile immediately before
\* the computed target, or last when there is no target, and leaves the
\* chapter sequence, the persisted parameter and the mark unchanged.
C21_DragOverRepositions ==
  [][((\E y \in PointerYs, box \in [Tiles -> Boxes] : DragOver(y, box))
        /\ draggingTiles # {}) =>
      LET dragged == querySelectorDragging(DragState)
          last == Len(tileOrder')
      IN /\ Len(tileOrder') = Len(tileOrder)
         /\ {tileOrder'[k] : k \in 1..last} = Tiles
         /\ \A j, k \in 1..last : tileOrder'[j] = tileOrder'[k] => j = k
         /\ without(tileOrder', dragged) = without(tileOrder, dragged)
         /\ dragTarget' # dragged
         /\ IF dragTarget' = NoTile
              THEN tileOrder'[last] = dragged
              ELSE \E k \in 1..(last - 1) :
                     /\ tileOrder'[k] = dragged
                     /\ tileOrder'[k + 1] = dragTarget'
         /\ dragError' = "none"
         /\ UNCHANGED <<chapters, param, draggingTiles>>]_vars

\* C21's case: tile 1, dragged, was moved down to just before tile 3.
C21_Witness ==
  /\ dragEvent[1] = "dragover"
  /\ draggingTiles = {1}
  /\ tileOrder = <<2, 1, 3>>
  /\ dragTarget = 3
  /\ dragError = "none"

\* ---------------------------------------------------------- section claims
\* The sections that are open.
OpenSections == {section \in Sections : sectionOpen[section]}

====
